---- MODULE Spec2Model ----
(***************************************************************************)
(* The Thing state engine of node-iotdb (model.js): attribute value slots, *)
(* the transactional set / update / start / end protocol, listener         *)
(* notification, driver push, the pulled callback and driver binding.      *)
(*                                                                         *)
(* A Thing is a record T; every method of Model.prototype is an operator   *)
(* from T (and its arguments) to the T that the method leaves behind.      *)
(* The observable effects of a call (listener callbacks, emitter events,   *)
(* driver calls, a thrown error) are appended to T.log in program order.   *)
(***************************************************************************)
EXTENDS Integers, Sequences, FiniteSets, TLC

VARIABLES
    attributes,       \* self.__attributes: the attribute codes, in declaration order
    ivalue,           \* attribute code -> attribute._ivalue
    ovalue,           \* attribute code -> attribute._ovalue
    ichanged,         \* attribute code -> attribute._ichanged
    ochanged,         \* attribute code -> attribute._ochanged
    transactions,     \* self._transactions, the stack of frames
    transaction,      \* self._transaction: index of the frame it refers to, 0 = null
    bridge_instance,  \* self.bridge_instance: a driver or "none"
    driver_instance,  \* thing.driver_instance, the field IOT keeps: a driver or "none"
    identityd,        \* self._identityd: "none" or the thing_id
    pulled,           \* the drivers on which bind_bridge installed a pulled callback
    callbacksd,       \* self.callbacksd: slot -> number of callbacks in its list
    instance,         \* iotdb.instance: "null", "up" or "down" (shutting_down set)
    last,             \* the call made by the last step
    log,              \* the effects of the last step, in order
    ret,              \* the value returned by the last step
    trail,            \* the set calls made in the open frame since its start
    fresh,            \* no set, update or pulled data has reached the Thing yet
    reaction,         \* what the callbacks of one slot do when invoked: a set, or nothing
    iot               \* the IOT instance: readyd, the on_ready listeners, thing_instanced

vars == <<attributes, ivalue, ovalue, ichanged, ochanged, transactions, transaction,
          bridge_instance, driver_instance, identityd, pulled, callbacksd,
          instance, last, log, ret, trail, fresh, reaction, iot>>

(***************************************************************************)
(* Bounds                                                                  *)
(***************************************************************************)
MaxDepth == 1      \* open transactions at any time
MaxCallbacks == 1  \* callbacks registered per slot
MaxTrail == 2      \* set calls remembered per frame
MaxNest == 2       \* open transactions at any time where they are nested
MaxReady == 1      \* the value a readiness counter is driven up to
MaxOnReady == 2    \* calls of IOT.on_ready

(***************************************************************************)
(* Values.  A JavaScript value is a record of its type and its number;     *)
(* strict equality (===) of primitives is equality of these records.       *)
(***************************************************************************)
Null == [kind |-> "null", n |-> 0]
Undefined == [kind |-> "undefined", n |-> 0]
Bool(b) == [kind |-> "boolean", n |-> IF b THEN 1 ELSE 0]
Num(i) == [kind |-> "number", n |-> i]
\* a string, by its length: Str(0) is ""
Str(i) == [kind |-> "string", n |-> i]

\* v != null  (loose: neither null nor undefined)
NotNullish(v) == v.kind \notin {"null", "undefined"}
\* v !== null (strict)
NotNull(v) == v.kind # "null"

(***************************************************************************)
(* The models under test (test_thing_setup): make_model('T') with no       *)
(* attribute, with make_boolean('on'), and with make_boolean('on') and     *)
(* make_number('intensity').                                               *)
(***************************************************************************)
Models == {<<>>, <<"on">>, <<"on", "intensity">>}
Attrs == {"on", "intensity"}

\* further attributes that share the purpose of 'on' (the paired items of
\* _find, e.g. on / on-value): two readings and two without a role
PurposeAttrs == {"on-value", "on-state", "on-raw", "on-alt"}

AttrKind == [a \in Attrs \cup PurposeAttrs |->
                IF a = "intensity" THEN "number" ELSE "boolean"]

\* attribute['iot:purpose'] and attribute['iot:role']
AttrPurpose == [a \in Attrs \cup PurposeAttrs |->
                   IF a = "intensity" THEN "intensity" ELSE "on"]

AttrRoles == [a \in Attrs \cup PurposeAttrs |->
                 IF a \in Attrs THEN {"control"}
                 ELSE IF a \in {"on-value", "on-state"} THEN {"reading"}
                 ELSE {}]

\* self.attributed: the codes of a Thing
CodesOf(T) == {T.attributes[i] : i \in 1..Len(T.attributes)}

Slots == Attrs \cup PurposeAttrs \cup {"null"}
Drivers == {"d1"}

\* the drivers of a Thing that is rebound, and bridge.meta()["iot:thing"] of each
BindDrivers == {"d1", "d2"}
ThingOf == [d \in BindDrivers |-> IF d = "d1" THEN "thing-1" ELSE "thing-2"]

\* find keys handed to get / set / on: the codes and one that matches nothing
Keys == Attrs \cup {"nokey"}

\* the values handed to set for each key
InputsOf(k) ==
    IF k = "on" THEN {Bool(TRUE), Bool(FALSE), Num(10), Num(0)}
    ELSE IF k = "intensity" THEN {Num(1), Num(2)}
    ELSE {Num(1)}

(***************************************************************************)
(* helpers.defaults(paramd, defaultd): every key of defaultd that paramd   *)
(* lacks is copied into paramd; a missing paramd is the empty dictionary.  *)
(***************************************************************************)
NoParamd == [x \in {} |-> TRUE]

defaults(paramd, defaultd) ==
    [k \in (DOMAIN paramd) \cup (DOMAIN defaultd) |->
        IF k \in DOMAIN paramd THEN paramd[k] ELSE defaultd[k]]

(***************************************************************************)
(* Attribute.validate: coercive.  A boolean attribute takes the truthiness *)
(* of its input; a number attribute keeps a number and rejects an input    *)
(* that is not a number with a ValidationError.                            *)
(***************************************************************************)
ValidationError == [kind |-> "ValidationError", n |-> 0]

Truthy(value) == value.kind \in {"boolean", "number", "string"} /\ value.n # 0

validate(code, value) ==
    IF AttrKind[code] = "boolean" THEN Bool(Truthy(value))
    ELSE IF value.kind = "number" THEN value
    ELSE ValidationError

\* new_value returned in place of paramd.value
_validate_Raw(code, new_value) == new_value

_validate(code, new_value) == validate(code, new_value)

(***************************************************************************)
(* Effects                                                                 *)
(***************************************************************************)
NoDict == <<>>
NoSnap == <<>>

\* callback number i of callbacksd[slot] invoked as callback(self, attribute, value)
EvCallback(T, slot, i, code, value) ==
    [t |-> "callback", k |-> slot, i |-> i, a |-> code, v |-> value,
     dict |-> NoDict, snap |-> <<T.ivalue, T.ovalue>>]

\* self.__emitter.emit(name, ...)
EvEmit(name) ==
    [t |-> "emit", k |-> name, i |-> 0, a |-> "", v |-> Null,
     dict |-> NoDict, snap |-> NoSnap]

\* a call of driver d: push(dict), pull() or disconnect()
EvDriver(what, d, dict) ==
    [t |-> what, k |-> d, i |-> 0, a |-> "", v |-> Null,
     dict |-> dict, snap |-> NoSnap]

\* an error thrown out of the call
EvThrow(what) ==
    [t |-> "throw", k |-> what, i |-> 0, a |-> "", v |-> Null,
     dict |-> NoDict, snap |-> NoSnap]

Emit(T, ev) == [T EXCEPT !.log = Append(@, ev)]

\* the call was left by an error thrown
Thrown(T) == Len(T.log) > 0 /\ T.log[Len(T.log)].t = "throw"

(***************************************************************************)
(* Model.prototype._find.  A string key that starts with ":" names a       *)
(* purpose and is looked up among the iot:purpose of the attributes; any   *)
(* other string key is an attribute code.  The result is the code of the   *)
(* attribute found, undefined, or the null that the fallback chain returns *)
(* in place of match_reading.                                              *)
(***************************************************************************)
NotFound == "undefined"
MatchNull == "null"

\* the purpose keys handed to _find and the purpose each expands to
PurposeKeys == {":on", ":nothing"}
KeyPurpose == [k \in PurposeKeys |-> IF k = ":on" THEN "on" ELSE "nothing"]

\* the attributes whose iot:purpose is the one asked for, in order
Matches(T, purpose) ==
    LET HasPurpose(a) == AttrPurpose[a] = purpose
    IN  SelectSeq(T.attributes, HasPurpose)

\* the last of the matches that carries the role, or null
MatchRole(matches, role) ==
    LET with == {i \in 1..Len(matches) : role \in AttrRoles[matches[i]]}
    IN  IF with = {} THEN MatchNull
        ELSE matches[CHOOSE i \in with : \A j \in with : j <= i]

\* the intent of the caller not consulted: the first match
_find_purpose_FirstMatch(T, purpose, paramd) ==
    LET matches == Matches(T, purpose)
    IN  IF Len(matches) = 0 THEN NotFound ELSE matches[1]

_find_purpose(T, purpose, paramd) ==
    LET matches == Matches(T, purpose)
        match_reading == MatchRole(matches, "reading")
        match_control == MatchRole(matches, "control")
    IN  IF Len(matches) = 1 THEN matches[1]
        ELSE IF paramd.set /\ match_control # MatchNull THEN match_control
        ELSE IF paramd.get /\ match_reading # MatchNull THEN match_reading
        ELSE IF paramd.on /\ match_reading # MatchNull THEN match_reading
        ELSE IF match_control # MatchNull THEN match_control
        ELSE IF match_reading # MatchNull THEN match_control
        ELSE IF Len(matches) = 0 THEN NotFound
        ELSE matches[1]

\* find_key.replace(/\/+/, ""): the pattern is not global, so the first run
\* of slashes is deleted and the text around it joined
SlashAt(str) == {i \in 1..Len(str) : SubSeq(str, i, i) = "/"}

replace_slashes(str) ==
    LET slashes == SlashAt(str)
    IN  IF slashes = {} THEN str
        ELSE LET from == CHOOSE i \in slashes : \A j \in slashes : i <= j
                 to == CHOOSE i \in from..Len(str) :
                           /\ \A j \in from..i : j \in slashes
                           /\ (i + 1) \notin slashes
             IN  SubSeq(str, 1, from - 1) \o SubSeq(str, to + 1, Len(str))

\* subkeys[subkeys.length - 1] of str.split("/")
last_subkey(str) ==
    LET slashes == SlashAt(str)
    IN  IF slashes = {} THEN str
        ELSE LET at == CHOOSE i \in slashes : \A j \in slashes : j <= i
             IN  SubSeq(str, at + 1, Len(str))

last_key(find_key) == last_subkey(replace_slashes(find_key))

\* a key that names nothing resolved to the first attribute
_find_FirstAttribute(T, find_key, paramd) ==
    IF find_key \in CodesOf(T) THEN find_key
    ELSE IF Len(T.attributes) > 0 THEN T.attributes[1]
    ELSE NotFound

_find(T, find_key, paramd) ==
    LET pd == defaults(paramd, [set |-> FALSE, get |-> FALSE, on |-> FALSE])
        key == last_key(find_key)
    IN  IF key \in PurposeKeys
        THEN _find_purpose(T, KeyPurpose[key], pd)
        ELSE IF key \in CodesOf(T) THEN key
        ELSE NotFound

(***************************************************************************)
(* Pending maps are JavaScript dictionaries code -> attribute: a sequence  *)
(* of codes in insertion order; assigning a present key keeps its place.   *)
(***************************************************************************)
InSeq(s, x) == \E i \in 1..Len(s) : s[i] = x

\* a list in place of the dictionary: every write is kept
DictPut_List(s, code) == Append(s, code)

DictPut(s, code) == IF InSeq(s, code) THEN s ELSE Append(s, code)

(***************************************************************************)
(* Model.prototype._do_pushes                                              *)
(***************************************************************************)
\* the test of self.bridge_instance dropped
_do_pushes_NoBridgeTest(T, attributed) ==
    Emit(T, EvDriver("push", T.bridge_instance,
             [i \in 1..Len(attributed) |->
                 <<attributed[i], T.ovalue[attributed[i]]>>]))

_do_pushes(T, attributed) ==
    IF T.bridge_instance = "none" THEN T
    ELSE Emit(T, EvDriver("push", T.bridge_instance,
                 [i \in 1..Len(attributed) |->
                     <<attributed[i], T.ovalue[attributed[i]]>>]))

(***************************************************************************)
(* Model.prototype._do_push                                                *)
(***************************************************************************)
_do_push(T, code, immediate) ==
    IF T.transaction = 0 \/ immediate
    THEN _do_pushes(T, <<code>>)
    ELSE [T EXCEPT !.transactions[T.transaction]._pushd = DictPut(@, code)]

(***************************************************************************)
(* Model.prototype._do_notifies                                            *)
(***************************************************************************)
NotifyValue(T, code) ==
    IF NotNullish(T.ivalue[code]) THEN T.ivalue[code]
    ELSE IF NotNullish(T.ovalue[code]) THEN T.ovalue[code]
    ELSE Null

\* the callbacks looked up without regard to the attribute's key
CallbackSlot_AnyKey(T, code) ==
    IF \E s \in Attrs : T.callbacksd[s] > 0
    THEN CHOOSE s \in Attrs : T.callbacksd[s] > 0
    ELSE "null"

\* callbacks = self.callbacksd[attribute_key], or self.callbacksd[null] if undefined
CallbackSlot(T, code) == IF T.callbacksd[code] > 0 THEN code ELSE "null"

CallbacksOf(T, code) ==
    LET slot == CallbackSlot(T, code)
    IN  [i \in 1..T.callbacksd[slot] |->
            EvCallback(T, slot, i, code, NotifyValue(T, code))]

\* A callback is code of the caller.  The callbacks of the slot
\* T.reaction.on call thing.set(T.reaction.key, T.reaction.val) when they are
\* invoked; all others only observe.
NoReaction == [on |-> "none", key |-> "", val |-> Null]

RECURSIVE set(_, _, _)

\* callbacks.map(...): callback i and those after it, for attribute code
RECURSIVE CallbackLoop(_, _, _, _)
CallbackLoop(T, slot, code, i) ==
    IF i > T.callbacksd[slot] THEN T
    ELSE LET T1 == Emit(T, EvCallback(T, slot, i, code, NotifyValue(T, code)))
             T2 == IF T.reaction.on = slot
                   THEN set(T1, T.reaction.key, T.reaction.val)
                   ELSE T1
         IN  CallbackLoop(T2, slot, code, i + 1)

\* for (var attribute_key in attributed): the keys are those the dictionary
\* holds when the loop starts
RECURSIVE NotifyLoop(_, _, _)
NotifyLoop(T, attributed, i) ==
    IF i > Len(attributed) THEN T
    ELSE NotifyLoop(CallbackLoop(T, CallbackSlot(T, attributed[i]), attributed[i], 1),
                    attributed, i + 1)

_do_notifies(T, attributed) ==
    LET T1 == NotifyLoop(T, attributed, 1)
    IN  IF Len(attributed) > 0 THEN Emit(T1, EvEmit("state")) ELSE T1

(***************************************************************************)
(* Model.prototype._do_notifies2                                           *)
(***************************************************************************)
\* the changed flags left as they are
_do_notifies2_KeepFlags(T, attributed) ==
    LET in == {attributed[i] : i \in 1..Len(attributed)}
        ich == \E a \in in : T.ichanged[a]
        och == \E a \in in : T.ochanged[a]
        T2 == IF ich THEN Emit(T, EvEmit("istate")) ELSE T
    IN  IF och THEN Emit(T2, EvEmit("ostate")) ELSE T2

_do_notifies2(T, attributed) ==
    LET in == {attributed[i] : i \in 1..Len(attributed)}
        ich == \E a \in in : T.ichanged[a]
        och == \E a \in in : T.ochanged[a]
        T1 == [T EXCEPT !.ichanged = [a \in CodesOf(T) |-> IF a \in in THEN FALSE ELSE @[a]],
                        !.ochanged = [a \in CodesOf(T) |-> IF a \in in THEN FALSE ELSE @[a]]]
        T2 == IF ich THEN Emit(T1, EvEmit("istate")) ELSE T1
    IN  IF och THEN Emit(T2, EvEmit("ostate")) ELSE T2

(***************************************************************************)
(* Model.prototype._do_notify                                              *)
(***************************************************************************)
\* the test of self._transaction dropped: always immediate
_do_notify_Immediate(T, code, immediate) ==
    _do_notifies2(_do_notifies(T, <<code>>), <<code>>)

\* nothing notified outside a transaction
_do_notify_Silent(T, code, immediate) ==
    IF T.transaction = 0 \/ immediate
    THEN T
    ELSE [T EXCEPT !.transactions[T.transaction]._notifyd = DictPut(@, code)]

_do_notify(T, code, immediate) ==
    IF T.transaction = 0 \/ immediate
    THEN _do_notifies2(_do_notifies(T, <<code>>), <<code>>)
    ELSE [T EXCEPT !.transactions[T.transaction]._notifyd = DictPut(@, code)]

(***************************************************************************)
(* Model.prototype.set                                                     *)
(***************************************************************************)
SetDefaults == [force |-> FALSE, push |-> TRUE, validate |-> TRUE]

\* the flags in effect: those of self._transaction, or the defaults
SetTransaction(T) ==
    IF T.transaction = 0
    THEN defaults(NoParamd, SetDefaults)
    ELSE defaults(T.transactions[T.transaction], SetDefaults)

\* the guard of the early return of set
SetIsNoop_NoNegation(tx, old, new) == tx.force /\ old = new

\* the force flag not consulted
SetIsNoop_IgnoreForce(tx, old, new) == old = new

SetIsNoop(tx, old, new) == ~tx.force /\ old = new

set(T, find_key, new_value) ==
    LET tx == SetTransaction(T)
        code == _find(T, find_key, [set |-> TRUE])
    IN  IF code = NotFound THEN T
        ELSE IF code = MatchNull THEN Emit(T, EvThrow("TypeError"))
        ELSE
        LET attribute_value_old ==
                IF tx.push THEN T.ovalue[code] ELSE T.ivalue[code]
            attribute_value_new ==
                IF tx.validate THEN _validate(code, new_value) ELSE new_value
        IN  IF attribute_value_new = ValidationError
            THEN Emit(T, EvThrow("ValidationError"))
            ELSE IF SetIsNoop(tx, attribute_value_old, attribute_value_new) THEN T
            ELSE IF tx.push
            THEN _do_notify(
                   _do_push([T EXCEPT !.ochanged[code] = TRUE,
                                      !.ovalue[code] = attribute_value_new],
                            code, FALSE),
                   code, FALSE)
            ELSE _do_notify([T EXCEPT !.ichanged[code] = TRUE,
                                      !.ivalue[code] = attribute_value_new],
                            code, FALSE)

(***************************************************************************)
(* Model.prototype.start                                                   *)
(***************************************************************************)
StartDefaults ==
    [notify |-> FALSE, validate |-> TRUE, push |-> TRUE, force |-> FALSE,
     _notifyd |-> <<>>, _validated |-> <<>>, _pushd |-> <<>>]

\* the options missing from a nested start taken from the enclosing frame
start_InheritFlags(T, paramd) ==
    LET outer == IF T.transaction = 0 THEN StartDefaults
                 ELSE [T.transactions[T.transaction] EXCEPT
                          !._notifyd = <<>>, !._validated = <<>>, !._pushd = <<>>]
        frame == defaults(paramd, outer)
        stack == Append(T.transactions, frame)
    IN  [T EXCEPT !.transactions = stack, !.transaction = Len(stack)]

start(T, paramd) ==
    LET frame == defaults(paramd, StartDefaults)
        stack == Append(T.transactions, frame)
    IN  [T EXCEPT !.transactions = stack, !.transaction = Len(stack)]

(***************************************************************************)
(* Model.prototype.end                                                     *)
(***************************************************************************)
\* the push made before the notifications
end_PushFirst(T) ==
    IF T.transaction = 0 THEN T
    ELSE
    LET frame == T.transactions[T.transaction]
        T1 == IF frame.push THEN _do_pushes(T, frame._pushd) ELSE T
        T2 == IF frame.notify THEN _do_notifies(T1, frame._notifyd) ELSE T1
        T3 == _do_notifies2(T2, frame._notifyd)
        stack == SubSeq(T3.transactions, 1, Len(T3.transactions) - 1)
    IN  [T3 EXCEPT !.transactions = stack, !.transaction = Len(stack)]

\* the test of self._transaction dropped: null is dereferenced
end_Unguarded(T) ==
    IF T.transaction = 0 THEN Emit(T, EvThrow("TypeError"))
    ELSE end_PushFirst(T)

\* the oldest open frame popped in place of the newest
end_PopOldest(T) ==
    IF T.transaction = 0 THEN T
    ELSE
    LET frame == T.transactions[T.transaction]
        T1 == IF frame.notify THEN _do_notifies(T, frame._notifyd) ELSE T
        T2 == _do_notifies2(T1, frame._notifyd)
        T3 == IF frame.push THEN _do_pushes(T2, frame._pushd) ELSE T2
        stack == Tail(T3.transactions)
    IN  [T3 EXCEPT !.transactions = stack, !.transaction = Len(stack)]

\* the steps of end: each reads the pending maps of self._transaction as
\* they are when it runs
end_notifies(T, frame) ==
    IF frame.notify THEN _do_notifies(T, frame._notifyd) ELSE T

end_notifies2(T) == _do_notifies2(T, T.transactions[T.transaction]._notifyd)

end_pushes(T, frame) ==
    IF frame.push THEN _do_pushes(T, T.transactions[T.transaction]._pushd) ELSE T

end_pop(T) ==
    LET stack == SubSeq(T.transactions, 1, Len(T.transactions) - 1)
    IN  [T EXCEPT !.transactions = stack, !.transaction = Len(stack)]

\* self._transaction set to null after the pop, whatever frames are left
end_NullPointer(T) ==
    IF T.transaction = 0 THEN T
    ELSE LET frame == T.transactions[T.transaction]
             T3 == end_pop(end_pushes(end_notifies2(end_notifies(T, frame)), frame))
         IN  [T3 EXCEPT !.transaction = 0]

end(T) ==
    IF T.transaction = 0 THEN T
    ELSE LET frame == T.transactions[T.transaction]
         IN  end_pop(end_pushes(end_notifies2(end_notifies(T, frame)), frame))

(***************************************************************************)
(* Model.prototype.update; updated is a sequence of <<key, value>>         *)
(***************************************************************************)
RECURSIVE SetLoop(_, _, _)
SetLoop(T, updated, i) ==
    IF i > Len(updated) \/ Thrown(T) THEN T
    ELSE SetLoop(set(T, updated[i][1], updated[i][2]), updated, i + 1)

\* the sets made without the transaction around them
update_NoTransaction(T, updated, paramd) == SetLoop(T, updated, 1)

update(T, updated, paramd) ==
    LET T1 == SetLoop(start(T, defaults(paramd, [notify |-> TRUE])), updated, 1)
    IN  IF Thrown(T1) THEN T1 ELSE end(T1)

(***************************************************************************)
(* Model.prototype.get: the value it returns, or the TypeError it throws   *)
(* on reading rd.attribute of null                                         *)
(***************************************************************************)
Threw == [kind |-> "threw", n |-> 0]

\* the output value preferred to the input value
get_OutputFirst(T, find_key) ==
    LET code == _find(T, find_key, [get |-> TRUE])
    IN  IF code = NotFound THEN Undefined
        ELSE IF code = MatchNull THEN Threw
        ELSE IF NotNull(T.ovalue[code]) THEN T.ovalue[code]
        ELSE IF NotNull(T.ivalue[code]) THEN T.ivalue[code]
        ELSE Null

get(T, find_key) ==
    LET code == _find(T, find_key, [get |-> TRUE])
    IN  IF code = NotFound THEN Undefined
        ELSE IF code = MatchNull THEN Threw
        ELSE IF NotNull(T.ivalue[code]) THEN T.ivalue[code]
        ELSE IF NotNull(T.ovalue[code]) THEN T.ovalue[code]
        ELSE Null

(***************************************************************************)
(* Model.prototype.state (default paramd): the dictionary it returns, as   *)
(* the sequence of <<code, value>> in the order of self.attributes()       *)
(***************************************************************************)
StateValue(T, code, paramd) ==
    IF paramd.istate /\ NotNullish(T.ivalue[code]) THEN T.ivalue[code]
    ELSE IF paramd.ostate /\ NotNullish(T.ovalue[code]) THEN T.ovalue[code]
    ELSE Null

\* attributes without a value left out of the dictionary
state_SkipNull(T, paramd) ==
    LET pd == defaults(paramd, [istate |-> TRUE, ostate |-> TRUE])
        all == [i \in 1..Len(T.attributes) |->
                   <<T.attributes[i], StateValue(T, T.attributes[i], pd)>>]
        HasValue(e) == e[2] # Null
    IN  SelectSeq(all, HasValue)

state(T, paramd) ==
    LET pd == defaults(paramd, [istate |-> TRUE, ostate |-> TRUE])
    IN  [i \in 1..Len(T.attributes) |->
            <<T.attributes[i], StateValue(T, T.attributes[i], pd)>>]

(***************************************************************************)
(* Model.prototype.on, for find_key null or a string key                   *)
(***************************************************************************)
on(T, find_key) ==
    IF find_key = "null"
    THEN [T EXCEPT !.callbacksd["null"] = @ + 1]
    ELSE LET code == _find(T, find_key, [on |-> TRUE])
         IN  IF code = NotFound THEN T
             ELSE IF code = MatchNull THEN Emit(T, EvThrow("TypeError"))
             ELSE [T EXCEPT !.callbacksd[code] = @ + 1]

\* thing.on(find_key, function () { thing.set(key, val); }): the callback
\* registered is one that sets an attribute of the Thing
on_setter(T, find_key, key, val) ==
    LET T1 == on(T, find_key)
        slots == {slot \in Slots : T1.callbacksd[slot] # T.callbacksd[slot]}
    IN  IF slots = {} THEN T1
        ELSE [T1 EXCEPT !.reaction =
                 [on |-> CHOOSE slot \in slots : TRUE, key |-> key, val |-> val]]

(***************************************************************************)
(* iotdb.shutting_down and Model.prototype.meta_changed.  shutting_down    *)
(* reads exports.instance.shutting_down only when exports.instance is      *)
(* null, which throws a TypeError; with an instance it returns false.      *)
(***************************************************************************)
ShuttingDownThrows(T) == T.instance = "null"

shutting_down(T) == FALSE

meta_changed(T) ==
    IF ShuttingDownThrows(T) THEN Emit(T, EvThrow("TypeError"))
    ELSE IF shutting_down(T) THEN T
    ELSE Emit(T, EvEmit("meta"))

(***************************************************************************)
(* Model.prototype.identity / thing_id                                     *)
(***************************************************************************)
identity(T) == T.identityd

thing_id(T) == identity(T)

(***************************************************************************)
(* Model.prototype.pull / reachable / disconnect                           *)
(***************************************************************************)
pull(T) ==
    IF T.bridge_instance # "none"
    THEN Emit(T, EvDriver("pull", T.bridge_instance, NoDict))
    ELSE T

\* answer is what bridge_instance.reachable() returns
reachable(T, answer) ==
    IF T.bridge_instance # "none" THEN answer ELSE FALSE

\* self.bridge_instance left in place
disconnect_KeepBridge(T) ==
    IF T.bridge_instance # "none"
    THEN Emit(T, EvDriver("disconnect", T.bridge_instance, NoDict))
    ELSE T

disconnect(T) ==
    IF T.bridge_instance # "none"
    THEN [Emit(T, EvDriver("disconnect", T.bridge_instance, NoDict))
             EXCEPT !.bridge_instance = "none"]
    ELSE T

(***************************************************************************)
(* Model.prototype.bind_bridge, and the pulled callback it installs on the *)
(* driver (the drivers modelled carry no binding.mapping)                  *)
(***************************************************************************)
bind_bridge(T, d) ==
    meta_changed([T EXCEPT !.bridge_instance = d,
                           !.pulled = @ \cup {d},
                           !.identityd = ThingOf[d]])

\* the pulled values pushed like local sets
PulledParamd_Push == [notify |-> TRUE, push |-> TRUE, force |-> FALSE]

PulledParamd == [notify |-> TRUE, push |-> FALSE, force |-> FALSE]

\* the pulled values applied as plain set calls, with no transaction of
\* their own
pulled_callback_PlainSets(T, has_pulld, pulld) ==
    IF has_pulld THEN SetLoop(T, pulld, 1) ELSE meta_changed(T)

pulled_callback(T, has_pulld, pulld) ==
    IF has_pulld THEN update(T, pulld, PulledParamd) ELSE meta_changed(T)

(***************************************************************************)
(* IOT.prototype._bind_driver and IOT.prototype._driver_swap, which work   *)
(* on thing.driver_instance.  _driver_swap disconnects the driver it finds *)
(* there, stores the new one, calls pull() on the Thing and, on the next   *)
(* tick, meta_changed().                                                   *)
(***************************************************************************)
_bind_driver(T, d) ==
    Emit([T EXCEPT !.driver_instance = d], EvDriver("setup", d, NoDict))

_driver_swap(T, d) ==
    LET T1 == IF T.driver_instance # "none"
              THEN Emit(T, EvDriver("disconnect", T.driver_instance, NoDict))
              ELSE T
    IN  meta_changed(pull([T1 EXCEPT !.driver_instance = d]))

(***************************************************************************)
(* IOT.prototype._add_thing(thing).  thing is the Thing of this module     *)
(* (name "self") or another Thing object; either is given by its name, its *)
(* thing_id() and its driver_instance.  thing_instanced maps a thing_id to *)
(* the name of the Thing registered under it.  answer is what reachable()  *)
(* of the registered Thing's bridge returns.                               *)
(***************************************************************************)
SelfRef(T) == [name |-> "self", id |-> thing_id(T), driver |-> T.driver_instance]

_add_thing(T, thing, answer) ==
    IF thing.id = "none" THEN T
    ELSE
    LET existing == T.iot.thing_instanced[thing.id]
    IN  IF existing = "self"
        THEN IF reachable(T, answer) THEN T
             ELSE IF thing.driver = "none"
             THEN \* new_thing.driver_instance.thing = ... of null
                  Emit([(IF T.driver_instance # "none"
                         THEN Emit(T, EvDriver("disconnect", T.driver_instance, NoDict))
                         ELSE T) EXCEPT !.driver_instance = "none"],
                       EvThrow("TypeError"))
             ELSE LET T1 == _driver_swap(T, thing.driver)
                  IN  IF thing.name = "self"
                      THEN [T1 EXCEPT !.driver_instance = "none"]
                      ELSE T1
        ELSE IF existing # "none"
        THEN \* another Thing is registered: it is left there, and a driver
             \* swap, if any, is made on that Thing
             T
        ELSE LET T1 == Emit([T EXCEPT !.iot.thing_instanced[thing.id] = thing.name],
                            [t |-> "iot_emit", k |-> "iot_new_thing", i |-> 0,
                             a |-> thing.name, v |-> Null, dict |-> NoDict,
                             snap |-> NoSnap])
             IN  IF thing.name = "self" THEN pull(T1) ELSE T1

(***************************************************************************)
(* IOT.prototype.ready_delta / is_ready / on_ready.  The IOT is T.iot:     *)
(* readyd maps a key to its counter (0 for a key not yet in it), doits is  *)
(* the list of the doit closures registered on the ready event, each with  *)
(* its callback still in place (live) or set to null, called counts the    *)
(* invocations of every callback handed to on_ready.  The initd that turn  *)
(* the loaders on (load_drivers, discover, ...) are off.                   *)
(***************************************************************************)
ReadyKeys == {"graph_ready", "load_meta"}
ThingIds == {ThingOf[d] : d \in BindDrivers}

NewIot ==
    [readyd |-> [key \in ReadyKeys |-> 0],
     doits |-> <<>>,
     called |-> <<>>,
     thing_instanced |-> [id \in ThingIds |-> "none"]]

\* an event emitted by the IOT, and a callback of on_ready invoked; both
\* carry the counters as they are at that moment
EvIot(T, name) ==
    [t |-> "iot_emit", k |-> name, i |-> 0, a |-> "", v |-> Null,
     dict |-> NoDict, snap |-> <<T.iot.readyd>>]

EvReady(T, id) ==
    [t |-> "on_ready", k |-> "", i |-> id, a |-> "", v |-> Null,
     dict |-> NoDict, snap |-> <<T.iot.readyd>>]

\* ready as soon as one counter is zero
is_ready_AnyKey(T) == \E key \in ReadyKeys : T.iot.readyd[key] = 0

is_ready(T) == \A key \in ReadyKeys : T.iot.readyd[key] = 0

\* doit of the callback id: it is called if it is still in place, and then
\* set to null
doit(T, id, live) ==
    IF live
    THEN [Emit(T, EvReady(T, id)) EXCEPT !.iot.called[id] = @ + 1]
    ELSE T

\* self.emit(EVENT_ON_READY): every doit registered, in order
RECURSIVE EmitReady(_, _)
EmitReady(T, i) ==
    IF i > Len(T.iot.doits) THEN T
    ELSE EmitReady([doit(T, T.iot.doits[i].id, T.iot.doits[i].live)
                       EXCEPT !.iot.doits[i].live = FALSE],
                   i + 1)

ready_delta(T, key, delta) ==
    LET value == T.iot.readyd[key] + delta
        T1 == [T EXCEPT !.iot.readyd[key] = value]
    IN  IF value < 0 THEN Emit(T1, EvThrow("Error"))
        ELSE IF value > 0 THEN T1
        ELSE LET T2 == IF is_ready(T1)
                       THEN EmitReady(Emit(T1, EvIot(T1, "iot_ready")), 1)
                       ELSE T1
             IN  Emit(T2, EvIot(T2, "iot_ready_change"))

\* on_ready(callback), callback being the next one handed to it
on_ready(T) ==
    LET id == Len(T.iot.called) + 1
        T1 == [T EXCEPT !.iot.called = Append(@, 0)]
    IN  IF is_ready(T1) THEN doit(T1, id, TRUE)
        ELSE [T1 EXCEPT !.iot.doits = Append(@, [id |-> id, live |-> TRUE])]

(***************************************************************************)
(* The Thing held in the variables, and the step that leaves T behind      *)
(***************************************************************************)
Self ==
    [attributes |-> attributes, ivalue |-> ivalue, ovalue |-> ovalue, ichanged |-> ichanged,
     ochanged |-> ochanged, transactions |-> transactions,
     transaction |-> transaction, bridge_instance |-> bridge_instance,
     driver_instance |-> driver_instance, identityd |-> identityd, pulled |-> pulled, callbacksd |-> callbacksd,
     instance |-> instance, reaction |-> reaction, iot |-> iot, log |-> <<>>]

Call(op, key, val, dict, paramd) ==
    [op |-> op, key |-> key, val |-> val, dict |-> dict, paramd |-> paramd,
     depth |-> Len(transactions), trail |-> trail]

RetSelf == [kind |-> "thing", n |-> 0]

\* The trail of the frame on top of the stack: ok while nothing but set calls
\* were made since its start.  It is kept only where it was switched on.
TrailOff == [ok |-> FALSE, calls |-> <<"off">>]
NoTrail == [ok |-> FALSE, calls |-> <<>>]
NewTrail == [ok |-> TRUE, calls |-> <<>>]

TrailAfterSet(key, val) ==
    IF trail.ok /\ Len(trail.calls) < MaxTrail
    THEN [ok |-> TRUE, calls |-> Append(trail.calls, <<key, val>>)]
    ELSE NoTrail

Becomes(T, call, r, tr) ==
    /\ attributes' = T.attributes
    /\ fresh' = (fresh /\ call.op \notin {"set", "update", "pulled"})
    /\ ivalue' = T.ivalue
    /\ ovalue' = T.ovalue
    /\ ichanged' = T.ichanged
    /\ ochanged' = T.ochanged
    /\ transactions' = T.transactions
    /\ transaction' = T.transaction
    /\ bridge_instance' = T.bridge_instance
    /\ driver_instance' = T.driver_instance
    /\ identityd' = T.identityd
    /\ pulled' = T.pulled
    /\ callbacksd' = T.callbacksd
    /\ instance' = T.instance
    /\ reaction' = T.reaction
    /\ iot' = T.iot
    /\ log' = T.log
    /\ last' = call
    /\ ret' = r
    /\ trail' = IF trail = TrailOff THEN TrailOff ELSE tr

(***************************************************************************)
(* Inputs                                                                  *)
(***************************************************************************)
StartParamds ==
    {NoParamd, [notify |-> TRUE], [notify |-> TRUE, force |-> TRUE],
     [notify |-> TRUE, push |-> FALSE]}

UpdateParamds == {NoParamd, [notify |-> FALSE]}

\* keys handed to on
OnKeys == {"on", "null", "nokey"}

\* dictionaries handed to update
UpdateDicts ==
    {<<>>,
     << <<"on", Num(10)>>, <<"intensity", Num(1)>> >>,
     << <<"intensity", Num(2)>>, <<"on", Bool(FALSE)>> >>,
     << <<"nokey", Num(1)>>, <<"on", Bool(TRUE)>> >>}

\* dictionaries a driver hands to pulled
PulledDicts ==
    {<<>>,
     << <<"on", Bool(TRUE)>> >>,
     << <<"on", Num(0)>>, <<"intensity", Num(1)>> >>}

(***************************************************************************)
(* Actions: one per call into the Thing                                    *)
(***************************************************************************)
CallSet(k, v) ==
    Becomes(set(Self, k, v), Call("set", k, v, NoDict, NoParamd), RetSelf,
            IF transaction = 0 THEN NoTrail ELSE TrailAfterSet(k, v))

\* start(paramd), made while fewer than depth transactions are open
StartWithin(depth, paramd) ==
    /\ Len(transactions) < depth
    /\ Becomes(start(Self, paramd), Call("start", "", Null, NoDict, paramd),
               RetSelf, NewTrail)

CallStart(paramd) == StartWithin(MaxDepth, paramd)

\* the call descriptor of end carries the flags of the frame it closes
FlagsOf(frame) ==
    [notify |-> frame.notify, validate |-> frame.validate,
     push |-> frame.push, force |-> frame.force]

CallEnd ==
    Becomes(end(Self),
            Call("end", "", Null, NoDict,
                 IF transaction = 0 THEN NoParamd
                 ELSE FlagsOf(transactions[transaction])),
            RetSelf, NoTrail)

CallUpdate(updated, paramd) ==
    /\ Len(transactions) < MaxDepth
    /\ Becomes(update(Self, updated, paramd),
               Call("update", "", Null, updated, paramd), RetSelf, NoTrail)

CallGet(k) ==
    LET r == get(Self, k)
    IN  Becomes(IF r = Threw THEN Emit(Self, EvThrow("TypeError")) ELSE Self,
                Call("get", k, Null, NoDict, NoParamd), r, NoTrail)

CallState ==
    Becomes(Self, Call("state", "", Null, NoDict, NoParamd),
            [kind |-> "state", n |-> 0, d |-> state(Self, NoParamd)], NoTrail)

CallOn(k) ==
    /\ \A slot \in Slots : on(Self, k).callbacksd[slot] <= MaxCallbacks
    /\ Becomes(on(Self, k), Call("on", k, Null, NoDict, NoParamd), RetSelf, NoTrail)

\* the first callback of a slot is registered, and it is one that sets
CallOnSetter(k, key, val) ==
    /\ reaction = NoReaction
    /\ \A slot \in Slots : on(Self, k).callbacksd[slot] > 0 => callbacksd[slot] = 0
    /\ Becomes(on_setter(Self, k, key, val), Call("on", k, val, NoDict, NoParamd),
               RetSelf, NoTrail)

CallPull ==
    Becomes(pull(Self), Call("pull", "", Null, NoDict, NoParamd), RetSelf, NoTrail)

CallDisconnect ==
    Becomes(disconnect(Self), Call("disconnect", "", Null, NoDict, NoParamd),
            Num(0), NoTrail)

CallBindBridge(d) ==
    Becomes(bind_bridge(Self, d), Call("bind_bridge", d, Null, NoDict, NoParamd),
            RetSelf, NoTrail)

\* driver d invokes the pulled callback with a dictionary
PulledWithin(depth, d, pulld) ==
    /\ d \in pulled
    /\ Len(transactions) < depth
    /\ Becomes(pulled_callback(Self, TRUE, pulld),
               Call("pulled", d, Null, pulld, NoParamd), Null, NoTrail)

DriverPulled(d, pulld) == PulledWithin(MaxDepth, d, pulld)

\* driver d invokes the pulled callback with null or no argument
DriverPulledNull(d) ==
    /\ d \in pulled
    /\ Becomes(pulled_callback(Self, FALSE, NoDict),
               Call("pulled_null", d, Null, NoDict, NoParamd), Null, NoTrail)

CallReachable(answer) ==
    Becomes(Self, Call("reachable", "", Bool(answer), NoDict, NoParamd),
            Bool(reachable(Self, answer)), NoTrail)

\* iot._bind_driver(thing, d) and iot._driver_swap(thing, new_thing) with
\* new_thing.driver_instance = d: calls of an IOT instance
Call_bind_driver(d) ==
    /\ instance # "null"
    /\ Becomes(_bind_driver(Self, d), Call("_bind_driver", d, Null, NoDict, NoParamd),
               Null, NoTrail)

Call_driver_swap(d) ==
    /\ instance # "null"
    /\ Becomes(_driver_swap(Self, d), Call("_driver_swap", d, Null, NoDict, NoParamd),
               Null, NoTrail)

Call_add_thing(thing, answer) ==
    /\ instance # "null"
    /\ Becomes(_add_thing(Self, thing, answer),
               Call("_add_thing", thing.id, Bool(answer),
                    << <<thing.name, thing.driver>> >>, NoParamd),
               Null, NoTrail)

Call_ready_delta(key, delta) ==
    /\ instance # "null"
    /\ iot.readyd[key] + delta \in (0 - 1)..MaxReady
    /\ Becomes(ready_delta(Self, key, delta),
               Call("ready_delta", key, Num(delta), NoDict, NoParamd), Null, NoTrail)

Call_on_ready ==
    /\ instance # "null"
    /\ Len(iot.called) < MaxOnReady
    /\ Becomes(on_ready(Self), Call("on_ready", "", Null, NoDict, NoParamd),
               Null, NoTrail)

\* new IOT(): exports.instance is set if it was null
NewIOT ==
    /\ instance = "null"
    /\ Becomes([Self EXCEPT !.instance = "up"],
               Call("new_iot", "", Null, NoDict, NoParamd), Null, NoTrail)

\* IOT._exit_cleanup: self.shutting_down = true
ExitCleanup ==
    /\ instance = "up"
    /\ Becomes([Self EXCEPT !.instance = "down"],
               Call("_exit_cleanup", "", Null, NoDict, NoParamd), Null, NoTrail)

(***************************************************************************)
(* The state after new T()                                                 *)
(***************************************************************************)
NewThing(models) ==
    /\ attributes \in models
    /\ ivalue = [a \in {attributes[i] : i \in 1..Len(attributes)} |-> Null]
    /\ ovalue = [a \in {attributes[i] : i \in 1..Len(attributes)} |-> Null]
    /\ ichanged = [a \in {attributes[i] : i \in 1..Len(attributes)} |-> FALSE]
    /\ ochanged = [a \in {attributes[i] : i \in 1..Len(attributes)} |-> FALSE]
    /\ transactions = <<>>
    /\ transaction = 0
    /\ bridge_instance = "none"
    /\ driver_instance = "none"
    /\ identityd = "none"
    /\ pulled = {}
    /\ callbacksd = [s \in Slots |-> 0]
    /\ instance = "null"
    /\ reaction = NoReaction
    /\ iot = NewIot
    /\ log = <<>>
    /\ ret = RetSelf
    /\ fresh = TRUE

InitThing == NewThing(Models)

NewCall(tr) ==
    [op |-> "new", key |-> "", val |-> Null, dict |-> NoDict,
     paramd |-> NoParamd, depth |-> 0, trail |-> tr]

Init ==
    /\ InitThing
    /\ trail = TrailOff
    /\ last = NewCall(TrailOff)

Next ==
    \/ \E k \in Keys : \E v \in InputsOf(k) : CallSet(k, v)
    \/ \E paramd \in StartParamds : CallStart(paramd)
    \/ CallEnd
    \/ \E updated \in UpdateDicts : \E paramd \in UpdateParamds : CallUpdate(updated, paramd)
    \/ \E k \in Keys : CallGet(k)
    \/ CallState
    \/ \E k \in OnKeys : CallOn(k)
    \/ \E d \in Drivers : CallBindBridge(d)
    \/ \E d \in Drivers : \E pulld \in PulledDicts : DriverPulled(d, pulld)

Spec == Init /\ [][Next]_vars

(***************************************************************************)
(* The same Thing with the trail switched on, driven through transactions  *)
(* of set calls.                                                           *)
(***************************************************************************)
SeqInputsOf(k) ==
    IF k = "on" THEN {Bool(TRUE), Bool(FALSE)} ELSE {Num(1), Num(2)}

SeqStartParamds ==
    {NoParamd, [notify |-> TRUE], [notify |-> TRUE, force |-> TRUE]}

SeqUpdateDicts == {<< <<"intensity", Num(2)>> >>}

SeqPulledDicts == {<< <<"intensity", Num(1)>> >>}

InitSeq ==
    /\ InitThing
    /\ trail = NoTrail
    /\ last = NewCall(NoTrail)

NextSeq ==
    \/ \E k \in Attrs : \E v \in SeqInputsOf(k) : CallSet(k, v)
    \/ \E paramd \in SeqStartParamds : CallStart(paramd)
    \/ CallEnd
    \/ \E updated \in SeqUpdateDicts : CallUpdate(updated, [force |-> TRUE])
    \/ \E k \in {"intensity", "null"} : CallOn(k)
    \/ \E d \in Drivers : CallBindBridge(d)
    \/ \E d \in Drivers : \E pulld \in SeqPulledDicts : DriverPulled(d, pulld)

SpecSeq == InitSeq /\ [][NextSeq]_vars

(***************************************************************************)
(* Things whose attributes share a purpose, addressed by purpose key, by   *)
(* code and by a key that matches nothing, with valid and invalid values;  *)
(* update is called while no transaction is open.                          *)
(***************************************************************************)
MaxAttributes == 2  \* attributes of a model

\* every model of up to MaxAttributes distinct attributes, in every order
FindModels ==
    UNION {{m \in [1..n -> Attrs \cup PurposeAttrs] :
               \A i, j \in 1..n : i # j => m[i] # m[j]} : n \in 0..MaxAttributes}

FindKeys == {":on", ":nothing", "on-value", "intensity"}

FindInputsOf(k) ==
    IF k = "intensity" THEN {Num(1), Str(1)}
    ELSE IF k = ":on" THEN {Bool(TRUE), Bool(FALSE)}
    ELSE {Bool(TRUE)}

FindOnKeys == {":on", "intensity"}

FindUpdateDicts ==
    {<< <<":on", Bool(TRUE)>>, <<"intensity", Str(1)>> >>}

InitFind ==
    /\ NewThing(FindModels)
    /\ trail = TrailOff
    /\ last = NewCall(TrailOff)

NextFind ==
    \/ \E k \in FindKeys : \E v \in FindInputsOf(k) : CallSet(k, v)
    \/ \E k \in PurposeKeys : CallGet(k)
    \/ \E k \in FindOnKeys : CallOn(k)
    \/ CallEnd
    \/ \E updated \in FindUpdateDicts :
          transactions = <<>> /\ CallUpdate(updated, NoParamd)
    \/ \E d \in Drivers : CallBindBridge(d)

SpecFind == InitFind /\ [][NextFind]_vars

(***************************************************************************)
(* A Thing with one attribute that is bound, rebound, disconnected and     *)
(* swapped between two drivers while it is set and pulled.                 *)
(***************************************************************************)
InitBind ==
    /\ NewThing({<<"on">>})
    /\ trail = TrailOff
    /\ last = NewCall(TrailOff)

NextBind ==
    \/ \E v \in {Bool(TRUE), Bool(FALSE)} : CallSet("on", v)
    \/ CallStart([notify |-> TRUE])
    \/ CallEnd
    \/ \E k \in {"on", "null"} : CallOn(k)
    \/ \E d \in BindDrivers : CallBindBridge(d)
    \/ CallDisconnect
    \/ CallPull
    \/ \E answer \in BOOLEAN : CallReachable(answer)
    \/ \E d \in BindDrivers : DriverPulled(d, << <<"on", Bool(TRUE)>> >>)
    \/ \E d \in BindDrivers : DriverPulledNull(d)
    \/ NewIOT
    \/ ExitCleanup
    \/ \E d \in BindDrivers : Call_bind_driver(d)
    \/ \E d \in BindDrivers : Call_driver_swap(d)

SpecBind == InitBind /\ [][NextBind]_vars

(***************************************************************************)
(* A bound Thing with two attributes whose transactions are nested: every  *)
(* frame is started with options of its own, and the driver may call       *)
(* pulled while a frame is open.                                           *)
(***************************************************************************)
NestStartParamds ==
    {NoParamd, [notify |-> TRUE, force |-> TRUE],
     [push |-> FALSE, validate |-> FALSE]}

NestInputsOf(k) == IF k = "on" THEN {Bool(TRUE), Num(10)} ELSE {Num(1)}

NestPulledDicts == {<< <<"on", Bool(TRUE)>>, <<"intensity", Num(2)>> >>}

InitNest ==
    /\ NewThing({<<"on", "intensity">>})
    /\ trail = TrailOff
    /\ last = NewCall(TrailOff)

NextNest ==
    \/ \E k \in Attrs : \E v \in NestInputsOf(k) : CallSet(k, v)
    \/ \E paramd \in NestStartParamds : StartWithin(MaxNest, paramd)
    \/ CallEnd
    \/ \E k \in {"on", "null"} : CallOn(k)
    \/ \E d \in Drivers : CallBindBridge(d)
    \/ \E d \in Drivers : \E pulld \in NestPulledDicts :
           PulledWithin(MaxNest, d, pulld)

SpecNest == InitNest /\ [][NextNest]_vars

(***************************************************************************)
(* A bound Thing one of whose listeners sets an attribute when it is       *)
(* called.                                                                 *)
(***************************************************************************)
Setters == {<<"on", Bool(FALSE)>>, <<"intensity", Num(2)>>}

ReenterInputsOf(k) == IF k = "on" THEN {Bool(TRUE), Bool(FALSE)} ELSE {Num(1)}

InitReenter ==
    /\ NewThing({<<"on", "intensity">>})
    /\ trail = TrailOff
    /\ last = NewCall(TrailOff)

NextReenter ==
    \/ \E k \in Attrs : \E v \in ReenterInputsOf(k) : CallSet(k, v)
    \/ \E paramd \in {NoParamd, [notify |-> TRUE]} : CallStart(paramd)
    \/ CallEnd
    \/ \E kv \in Setters : CallOnSetter("on", kv[1], kv[2])
    \/ CallOn("intensity")
    \/ \E d \in Drivers : CallBindBridge(d)

SpecReenter == InitReenter /\ [][NextReenter]_vars

(***************************************************************************)
(* An IOT whose readiness counters go up and down while callbacks are      *)
(* handed to on_ready.                                                     *)
(***************************************************************************)
InitReady ==
    /\ NewThing({<<"on">>})
    /\ trail = TrailOff
    /\ last = NewCall(TrailOff)

NextReady ==
    \/ NewIOT
    \/ \E key \in ReadyKeys : \E delta \in {1, 0 - 1} : Call_ready_delta(key, delta)
    \/ Call_on_ready
    \/ \E v \in {Bool(TRUE), Bool(FALSE)} : CallSet("on", v)

SpecReady == InitReady /\ [][NextReady]_vars

(***************************************************************************)
(* An IOT to which the Thing, bound and unbound, and other Things with the *)
(* same and with other thing_ids are added.                                *)
(***************************************************************************)
NewThings ==
    [name : {"other"}, id : ThingIds \cup {"none"}, driver : BindDrivers]

InitRegistry ==
    /\ NewThing({<<"on">>})
    /\ trail = TrailOff
    /\ last = NewCall(TrailOff)

NextRegistry ==
    \/ NewIOT
    \/ \E d \in BindDrivers : CallBindBridge(d)
    \/ CallDisconnect
    \/ \E d \in BindDrivers : Call_bind_driver(d)
    \/ \E answer \in BOOLEAN : Call_add_thing(SelfRef(Self), answer)
    \/ \E thing \in NewThings : \E answer \in BOOLEAN : Call_add_thing(thing, answer)

SpecRegistry == InitRegistry /\ [][NextRegistry]_vars

(***************************************************************************)
(* A Thing, which has no sub-entities, read and written under keys that    *)
(* hold slashes.                                                           *)
(***************************************************************************)
PathKeys == {"sub/on", "sub/x/on", "inten/sity", "on//x", "/on", "on/"}

InitPath ==
    /\ InitThing
    /\ trail = TrailOff
    /\ last = NewCall(TrailOff)

NextPath ==
    \/ \E k \in PathKeys \cup Attrs : \E v \in InputsOf("intensity") : CallSet(k, v)
    \/ \E k \in PathKeys \cup Attrs : CallGet(k)

SpecPath == InitPath /\ [][NextPath]_vars

(***************************************************************************)
(* Reading the log                                                         *)
(***************************************************************************)
\* the positions of l that hold callbacks invoked for attribute code
CallbackAt(l, code) == {i \in 1..Len(l) : l[i].t = "callback" /\ l[i].a = code}
\* the positions of l that hold any callback, any emitted event, a push call
CallbackPos(l) == {i \in 1..Len(l) : l[i].t = "callback"}
EmitPos(l) == {i \in 1..Len(l) : l[i].t = "emit"}
EmitAt(l, name) == {i \in 1..Len(l) : l[i].t = "emit" /\ l[i].k = name}
PushPos(l) == {i \in 1..Len(l) : l[i].t = "push"}
ThrowPos(l) == {i \in 1..Len(l) : l[i].t = "throw"}

\* the number of callbacks that listen to attribute code
ListenersOf(code) ==
    IF callbacksd[code] > 0 THEN callbacksd[code] ELSE callbacksd["null"]

Codes == {attributes[i] : i \in 1..Len(attributes)}

\* what the spec says validation makes of a valid value
Coerced(code, v) ==
    IF AttrKind[code] = "boolean"
    THEN (IF v \in {Bool(FALSE), Num(0)} THEN Bool(FALSE) ELSE Bool(TRUE))
    ELSE v

C4_SetStep ==
    (last'.op = "set" /\ last'.depth > 0) =>
        /\ log' = <<>>
        /\ Len(transactions') = Len(transactions)
        /\ \A a \in Codes :
              (ovalue'[a] # ovalue[a] \/ ivalue'[a] # ivalue[a]) =>
                  InSeq(transactions'[transaction']._notifyd, a)
        /\ \A a \in Codes :
              ovalue'[a] # ovalue[a] =>
                  InSeq(transactions'[transaction']._pushd, a)

C4_EndStep ==
    (last'.op = "end" /\ last'.depth > 0) =>
        LET frame == transactions[transaction]
        IN  /\ \A i \in CallbackPos(log') : InSeq(frame._notifyd, log'[i].a)
            /\ \A i \in PushPos(log') :
                  /\ Len(log'[i].dict) = Len(frame._pushd)
                  /\ \A p \in 1..Len(frame._pushd) :
                        log'[i].dict[p] = <<frame._pushd[p], ovalue[frame._pushd[p]]>>

C4_DeferredInTransaction == [][C4_SetStep /\ C4_EndStep]_vars

\* a set in an open transaction that changed an output value on a bound Thing
\* with a listener, and stayed silent
C4_Witness ==
    /\ last.op = "set" /\ last.depth > 0 /\ last.key \in Codes
    /\ transaction > 0
    /\ InSeq(transactions[transaction]._pushd, last.key)
    /\ InSeq(transactions[transaction]._notifyd, last.key)
    /\ bridge_instance # "none"
    /\ ListenersOf(last.key) > 0
    /\ log = <<>>

(***************************************************************************)
(* C5.  end() of a frame whose notify and push flags are true invokes the  *)
(* callbacks of every pending attribute, then emits istate / ostate, and   *)
(* only then calls push: in its log every callback precedes every istate / *)
(* ostate event, and every callback and event precedes the push.           *)
(***************************************************************************)
C5_EndStep ==
    (/\ last'.op = "end" /\ last'.depth > 0
     /\ last'.paramd.notify /\ last'.paramd.push) =>
        LET frame == transactions[transaction]
            l == log'
        IN  /\ \A p \in 1..Len(frame._notifyd) :
                  Cardinality(CallbackAt(l, frame._notifyd[p]))
                      = ListenersOf(frame._notifyd[p])
            /\ \A i \in CallbackPos(l) :
                  \A j \in EmitAt(l, "istate") \cup EmitAt(l, "ostate") : i < j
            /\ \A i \in CallbackPos(l) \cup EmitPos(l) :
                  \A k \in PushPos(l) : i < k
            /\ bridge_instance # "none" => Cardinality(PushPos(l)) = 1

C5_NotifyThenPush == [][C5_EndStep]_vars

\* an end() that invoked a callback, emitted ostate and pushed
C5_Witness ==
    /\ last.op = "end" /\ last.depth > 0
    /\ last.paramd.notify /\ last.paramd.push
    /\ CallbackPos(log) # {}
    /\ EmitAt(log, "ostate") # {}
    /\ PushPos(log) # {}

(***************************************************************************)
(* C6.  Whenever a call both invokes the listeners of an attribute and     *)
(* pushes that attribute to the driver, the listeners are invoked before   *)
(* the push is made, for a set outside a transaction as well.              *)
(***************************************************************************)
C6_ListenersBeforePush ==
    \A k \in PushPos(log) :
        \A p \in 1..Len(log[k].dict) :
            LET a == log[k].dict[p][1]
            IN  CallbackAt(log, a) # {} =>
                    \E i \in CallbackAt(log, a) : i < k

(***************************************************************************)
(* Transactions of exactly two set calls on one attribute of a bound Thing *)
(***************************************************************************)
TwoSets(A, v1, v2) == [ok |-> TRUE, calls |-> << <<A, v1>>, <<A, v2>> >>]

DefaultFlags == FlagsOf(defaults(NoParamd, StartDefaults))

\* the last step was the end() of start(paramd flags); set(A, v1); set(A, v2)
EndedTwoSets(A, v1, v2) ==
    /\ last.op = "end" /\ last.depth > 0
    /\ last.trail = TwoSets(A, v1, v2)
    /\ A \in Codes
    /\ bridge_instance # "none"

C3_AsClaimed ==
    \A A \in Attrs : \A V \in SeqInputsOf(A) :
        (/\ EndedTwoSets(A, V, V)
         /\ last.paramd.force /\ last.paramd.notify /\ last.paramd.push
         /\ ListenersOf(A) = 1) =>
            /\ Cardinality(CallbackAt(log, A)) = 2
            /\ Cardinality(PushPos(log)) = 2

(***************************************************************************)
(* C3 amended.  With force:true in effect a set of the stored value is not *)
(* dropped.  Two such sets made in separate forced transactions (the same  *)
(* update(dict, {force:true}) made twice) notify and push once each, so    *)
(* twice in total, although the value is unchanged; two such sets made     *)
(* inside one forced transaction are coalesced by end() into one           *)
(* notification per listener and one push.                                 *)
(***************************************************************************)
C3_UpdateAgain ==
    (last.op = "update" /\ last.paramd = [force |-> TRUE]
        /\ bridge_instance # "none") =>
        LET again == update(Self, last.dict, last.paramd)
        IN  \A p \in 1..Len(last.dict) :
              LET A == last.dict[p][1]
              IN  A \in Codes =>
                    /\ ovalue[A] = Coerced(A, last.dict[p][2])
                    /\ again.ovalue = ovalue
                    /\ Cardinality(CallbackAt(log, A)) = ListenersOf(A)
                    /\ Cardinality(CallbackAt(again.log, A)) = ListenersOf(A)
                    /\ Cardinality(PushPos(log)) = 1
                    /\ Cardinality(PushPos(again.log)) = 1
                    /\ \A k \in PushPos(again.log) :
                          InSeq(again.log[k].dict, <<A, ovalue[A]>>)

C3_OneFrame ==
    \A A \in Attrs : \A V \in SeqInputsOf(A) :
        (/\ EndedTwoSets(A, V, V)
         /\ last.paramd.force /\ last.paramd.notify /\ last.paramd.push) =>
            /\ Cardinality(CallbackAt(log, A)) = ListenersOf(A)
            /\ Cardinality(PushPos(log)) = 1
            /\ \A k \in PushPos(log) : log[k].dict = << <<A, Coerced(A, V)>> >>

C3_ForcedSet == C3_UpdateAgain /\ C3_OneFrame

\* a forced transaction of two equal sets has ended on a bound Thing with a
\* listener, which was invoked
C3_Witness ==
    \E A \in Attrs : \E V \in SeqInputsOf(A) :
        /\ EndedTwoSets(A, V, V)
        /\ last.paramd.force /\ last.paramd.notify /\ last.paramd.push
        /\ CallbackAt(log, A) # {}
        /\ PushPos(log) # {}

(***************************************************************************)
(* C7.  update(dict, options), made by the application or by the pulled    *)
(* callback, sets every key of dict before any callback or push: the       *)
(* snapshot every callback sees holds the validated value of every         *)
(* attribute named in dict; the callbacks are those of the attributes      *)
(* whose value changed, each listener invoked exactly once (none when the  *)
(* options switch notify off); the driver gets at most one push call,      *)
(* made after the callbacks, whose dict holds every changed output value;  *)
(* the transaction stack is left as it was.                                *)
(***************************************************************************)
C7_Flag(paramd, name, dflt) ==
    IF name \in DOMAIN paramd THEN paramd[name] ELSE dflt

C7_UpdateStep ==
    (last'.op \in {"update", "pulled"}) =>
        LET pd == IF last'.op = "pulled" THEN PulledParamd ELSE last'.paramd
            notify == C7_Flag(pd, "notify", TRUE)
            push == C7_Flag(pd, "push", TRUE)
            old == IF push THEN ovalue ELSE ivalue
            new == IF push THEN ovalue' ELSE ivalue'
            changed == {a \in Codes : new[a] # old[a]}
            dict == last'.dict
            l == log'
        IN  /\ \A i \in CallbackPos(l) : \A p \in 1..Len(dict) :
                  dict[p][1] \in Codes =>
                      l[i].snap[IF push THEN 2 ELSE 1][dict[p][1]]
                          = Coerced(dict[p][1], dict[p][2])
            /\ \A a \in changed :
                  Cardinality(CallbackAt(l, a))
                      = (IF notify THEN ListenersOf(a) ELSE 0)
            /\ \A a \in Codes \ changed : CallbackAt(l, a) = {}
            /\ Cardinality(PushPos(l)) <= 1
            /\ \A k \in PushPos(l) :
                  /\ \A a \in changed : InSeq(l[k].dict, <<a, ovalue'[a]>>)
                  /\ \A i \in CallbackPos(l) : i < k
            /\ ~push => PushPos(l) = {} /\ ovalue' = ovalue
            /\ transactions' = transactions /\ transaction' = transaction

C8_GetStep ==
    (last'.op = "get") =>
        LET k == last'.key
        IN  /\ ret' = (IF k \notin Codes THEN Undefined
                       ELSE IF ivalue[k] # Null THEN ivalue[k]
                       ELSE IF ovalue[k] # Null THEN ovalue[k]
                       ELSE Null)
            /\ log' = <<>>
            /\ UNCHANGED <<attributes, ivalue, ovalue, ichanged, ochanged,
                           transactions, transaction, bridge_instance,
                           driver_instance, identityd, pulled, callbacksd,
                           instance>>

C8_Get == [][C8_GetStep]_vars

\* a get of an attribute that holds an input value and another output value
C8_Witness ==
    /\ last.op = "get" /\ last.key \in Codes
    /\ ivalue[last.key] # Null /\ ovalue[last.key] # Null
    /\ ivalue[last.key] # ovalue[last.key]
    /\ ret = ivalue[last.key]

(***************************************************************************)
(* C9.  On a Thing with no driver bound and no pulled data, after          *)
(* set(k, v) outside a transaction state()[k] and get(k) are the coerced   *)
(* value of v: for a boolean attribute false for false and 0, true for     *)
(* true and 10.                                                            *)
(***************************************************************************)
C9_ReadBack ==
    (/\ last.op = "set" /\ last.depth = 0 /\ last.key \in Codes
     /\ bridge_instance = "none" /\ pulled = {}
     /\ \A a \in Codes : ivalue[a] = Null) =>
        /\ get(Self, last.key) = Coerced(last.key, last.val)
        /\ \E i \in 1..Len(attributes) :
              /\ attributes[i] = last.key
              /\ state(Self, NoParamd)[i] = <<last.key, Coerced(last.key, last.val)>>
        /\ (last.key = "on" /\ last.val = Num(10)) => get(Self, "on") = Bool(TRUE)
        /\ (last.key = "on" /\ last.val = Num(0)) => get(Self, "on") = Bool(FALSE)

\* set('on', 10) on an unbound Thing reads back true
C9_Witness ==
    /\ last.op = "set" /\ last.depth = 0
    /\ last.key = "on" /\ last.val = Num(10) /\ "on" \in Codes
    /\ bridge_instance = "none" /\ pulled = {}
    /\ get(Self, "on") = Bool(TRUE)

(***************************************************************************)
(* C10.  A Thing that no set, update or pulled data has reached reports    *)
(* null for every declared attribute in state(), in declaration order, and *)
(* the empty dictionary when the model declares no attribute.              *)
(***************************************************************************)
C10_FreshState ==
    fresh =>
        /\ state(Self, NoParamd)
              = [i \in 1..Len(attributes) |-> <<attributes[i], Null>>]
        /\ attributes = <<>> => state(Self, NoParamd) = <<>>
        /\ last.op = "state" => ret.d = state(Self, NoParamd)

\* state() called on a fresh Thing with the attributes on and intensity
C10_Witness ==
    /\ fresh /\ last.op = "state"
    /\ attributes = <<"on", "intensity">>
    /\ ret.d = << <<"on", Null>>, <<"intensity", Null>> >>

(***************************************************************************)
(* C11.  A set on one attribute changes the input value, the output value  *)
(* and the changed flags of no other attribute, and invokes no callback    *)
(* registered for another attribute: every callback it invokes is invoked  *)
(* for the attribute set, from that attribute's list or the wildcard list. *)
(***************************************************************************)
C11_SetStep ==
    (last'.op = "set" /\ last'.key \in Codes) =>
        /\ \A b \in Codes \ {last'.key} :
              /\ ivalue'[b] = ivalue[b] /\ ovalue'[b] = ovalue[b]
              /\ ichanged'[b] = ichanged[b] /\ ochanged'[b] = ochanged[b]
              /\ \A i \in CallbackPos(log') : log'[i].k # b
        /\ \A i \in CallbackPos(log') :
              log'[i].a = last'.key /\ log'[i].k \in {last'.key, "null"}
        /\ callbacksd' = callbacksd

C11_Independence == [][C11_SetStep]_vars

\* set on 'on' invoked the wildcard listener while 'intensity' holds a value
\* and has a listener of its own
C11_Witness ==
    /\ last.op = "set" /\ last.key = "on" /\ last.depth = 0
    /\ attributes = <<"on", "intensity">>
    /\ callbacksd["intensity"] > 0
    /\ ovalue["intensity"] # Null
    /\ CallbackAt(log, "on") # {}
    /\ CallbackAt(log, "intensity") = {}

(***************************************************************************)
(* Purpose lookups: the attributes of the Thing that carry the purpose of  *)
(* the key, and those among them that carry a role                         *)
(***************************************************************************)
Matching(k) == {a \in Codes : k \in PurposeKeys /\ AttrPurpose[a] = KeyPurpose[k]}
Controls(k) == {a \in Matching(k) : "control" \in AttrRoles[a]}
Readings(k) == {a \in Matching(k) : "reading" \in AttrRoles[a]}

\* what get by code returns for attribute a
ValueOf(a) ==
    IF ivalue[a] # Null THEN ivalue[a]
    ELSE IF ovalue[a] # Null THEN ovalue[a] ELSE Null

(***************************************************************************)
(* C12.  On a Thing whose attributes with the purpose of the key are       *)
(* exactly one control-role attribute c and one reading-role attribute r,  *)
(* a set by purpose writes c and leaves r alone, a get by purpose returns  *)
(* the value of r, and on by purpose registers the callback for r.         *)
(***************************************************************************)
C12_Step ==
    (last'.key \in PurposeKeys /\ Len(attributes) > 1) =>
    LET both == Matching(last'.key)
    IN  \A c, r \in both :
        (/\ both = {c, r}
         /\ AttrRoles[c] = {"control"} /\ AttrRoles[r] = {"reading"}) =>
            /\ last'.op = "set" =>
                  /\ ovalue'[c] = last'.val
                  /\ ovalue'[r] = ovalue[r] /\ ivalue'[r] = ivalue[r]
                  /\ ThrowPos(log') = {}
            /\ last'.op = "get" => ret' = ValueOf(r)
            /\ last'.op = "on" =>
                  /\ callbacksd'[r] = callbacksd[r] + 1
                  /\ callbacksd'[c] = callbacksd[c]

C12_Disambiguation == [][C12_Step]_vars

\* get by purpose returned the value of the reading attribute while the
\* control attribute, declared first, holds another value
C12_Witness ==
    /\ attributes = <<"on", "on-value">>
    /\ last.op = "get" /\ last.key = ":on"
    /\ ovalue["on"] = Bool(FALSE) /\ ovalue["on-value"] = Bool(TRUE)
    /\ ret = Bool(TRUE)

(***************************************************************************)
(* C13.  A lookup by purpose that matches several attributes, where the    *)
(* choice by intent does not apply, falls back to a control-role match,    *)
(* else to a reading-role match, else to the first match: a get with no    *)
(* reading-role match returns the value of a control-role match or of the  *)
(* first match, a set with reading-role matches and no control-role match  *)
(* writes a reading-role attribute, and with no match at all the set is a  *)
(* no-op and the get returns undefined.                                    *)
(***************************************************************************)
C13_Fallback ==
    LET k == last.key
    IN  (k \in PurposeKeys /\ last.op \in {"set", "get"}) =>
            /\ (last.op = "get" /\ Cardinality(Matching(k)) > 1 /\ Readings(k) = {}) =>
                  IF Controls(k) # {}
                  THEN \E c \in Controls(k) : ret = ValueOf(c)
                  ELSE \E i \in 1..Len(attributes) :
                          /\ attributes[i] \in Matching(k)
                          /\ \A j \in 1..(i - 1) : attributes[j] \notin Matching(k)
                          /\ ret = ValueOf(attributes[i])
            /\ (last.op = "set" /\ last.depth = 0 /\ Cardinality(Matching(k)) > 1
                    /\ Controls(k) = {} /\ Readings(k) # {}) =>
                  /\ ThrowPos(log) = {}
                  /\ \E r \in Readings(k) : ovalue[r] = last.val
            /\ (last.op = "get" /\ Matching(k) = {}) => ret = Undefined
            /\ (last.op = "set" /\ Matching(k) = {}) => log = <<>>

(***************************************************************************)
(* C14.  No get, set or update, whatever its key, throws a TypeError (or   *)
(* any error caused by the key) out of the Thing.                          *)
(***************************************************************************)
C14_NoThrow ==
    (last.op \in {"get", "set", "update"}) =>
        \A i \in ThrowPos(log) : log[i].k # "TypeError"

(***************************************************************************)
(* C15.  set(key, v) with a key that resolves to no attribute changes no   *)
(* attribute value, no changed flag and no pending map, registers nothing, *)
(* fires no callback and no event, makes no push call and throws nothing,  *)
(* and returns the Thing.                                                  *)
(***************************************************************************)
C15_Step ==
    (last'.op = "set" /\ last'.key \notin Codes) =>
        /\ log' = <<>>
        /\ ret' = RetSelf
        /\ UNCHANGED <<attributes, ivalue, ovalue, ichanged, ochanged,
                       transactions, transaction, bridge_instance,
                       driver_instance, identityd, pulled, callbacksd,
                       instance>>

C15_NotFoundNoop == [][C15_Step]_vars

\* a set with an unknown key made in an open transaction with a pending push,
\* on a bound Thing with a wildcard listener
C15_Witness ==
    /\ last.op = "set" /\ last.key = "nokey"
    /\ attributes # <<>>
    /\ transaction > 0
    /\ transactions[transaction]._pushd # <<>>
    /\ bridge_instance # "none"
    /\ callbacksd["null"] > 0
    /\ log = <<>>

(***************************************************************************)
(* C16.  A set, made while validation is enabled, of a value that is       *)
(* invalid for the attribute (not a number, for a number attribute) leaves *)
(* every input and output value as it was, invokes no callback, emits no   *)
(* event and makes no push call.                                           *)
(***************************************************************************)
C16_Step ==
    (/\ last'.op = "set" /\ last'.key \in Codes
     /\ AttrKind[last'.key] = "number" /\ last'.val.kind # "number"
     /\ (transaction = 0 \/ transactions[transaction].validate)) =>
        /\ ivalue' = ivalue /\ ovalue' = ovalue
        /\ CallbackPos(log') = {} /\ EmitPos(log') = {} /\ PushPos(log') = {}

C16_InvalidIgnored == [][C16_Step]_vars

\* a string was set on 'intensity', which held 1, on a bound Thing with a
\* listener for it: the set was rejected and the 1 is still there
C16_Witness ==
    /\ last.op = "set" /\ last.key = "intensity" /\ last.val = Str(1)
    /\ "intensity" \in Codes
    /\ ovalue["intensity"] = Num(1)
    /\ bridge_instance # "none"
    /\ callbacksd["intensity"] > 0
    /\ \E i \in ThrowPos(log) : log[i].k = "ValidationError"

(***************************************************************************)
(* Calls that reach a driver                                               *)
(***************************************************************************)
\* the positions of l that hold a call of any driver / of driver d
DriverPos(l) == {i \in 1..Len(l) : l[i].t \in {"push", "pull", "disconnect", "setup"}}
PushPullAt(l, d) == {i \in 1..Len(l) : l[i].t \in {"push", "pull"} /\ l[i].k = d}
DisconnectAt(l, d) == {i \in 1..Len(l) : l[i].t = "disconnect" /\ l[i].k = d}

(***************************************************************************)
(* C17.  While no driver is bound, a set outside a transaction still       *)
(* stores the validated value and, when the value changed, invokes every   *)
(* listener of the attribute once; and no set, update or end() makes a     *)
(* call on any driver.                                                     *)
(***************************************************************************)
C17_Step ==
    (bridge_instance = "none" /\ last'.op \in {"set", "update", "end"}) =>
        /\ DriverPos(log') = {}
        /\ (last'.op = "set" /\ last'.depth = 0 /\ last'.key \in Codes) =>
              /\ ovalue'[last'.key] = Coerced(last'.key, last'.val)
              /\ ovalue'[last'.key] # ovalue[last'.key] =>
                    Cardinality(CallbackAt(log', last'.key)) = ListenersOf(last'.key)

C18_Step ==
    (identityd # "none") =>
        /\ identityd' = identityd
        /\ last'.op = "bind_bridge" => (ivalue' = ivalue /\ ovalue' = ovalue)

C18_IdentityKept == [][C18_Step]_vars

(***************************************************************************)
(* C19.  When a Thing bound to a driver is given another driver, by        *)
(* bind_bridge or by _driver_swap, disconnect() of the old driver is       *)
(* called, and called before any push or pull of the new driver.           *)
(***************************************************************************)
C19_Step ==
    /\ (last'.op = "bind_bridge" /\ bridge_instance \notin {"none", last'.key}) =>
          /\ DisconnectAt(log', bridge_instance) # {}
          /\ \A i \in DisconnectAt(log', bridge_instance) :
                \A j \in PushPullAt(log', last'.key) : i < j
    /\ (last'.op = "_driver_swap" /\ driver_instance \notin {"none", last'.key}) =>
          /\ DisconnectAt(log', driver_instance) # {}
          /\ \A i \in DisconnectAt(log', driver_instance) :
                \A j \in PushPullAt(log', last'.key) : i < j

C19_DisconnectFirst == [][C19_Step]_vars

(***************************************************************************)
(* C20.  disconnect() calls disconnect of the bound driver once, unbinds   *)
(* it and keeps the identity; while the Thing is unbound a further         *)
(* disconnect() calls no driver, no set, update, end() or pull() makes a   *)
(* call on any driver, reachable() returns false, and the identity stays.  *)
(***************************************************************************)
C20_Step ==
    /\ last'.op = "disconnect" =>
          /\ bridge_instance' = "none"
          /\ identityd' = identityd
          /\ IF bridge_instance = "none" THEN log' = <<>>
             ELSE /\ Cardinality(DisconnectAt(log', bridge_instance)) = 1
                  /\ Len(log') = 1
    /\ (bridge_instance = "none"
            /\ last'.op \in {"set", "update", "end", "pull", "start", "on", "reachable"}) =>
          /\ DriverPos(log') = {}
          /\ identityd' = identityd
          /\ bridge_instance' = "none"
          /\ last'.op = "reachable" => ret' = Bool(FALSE)

C20_Disconnected == [][C20_Step]_vars

\* pull() on a Thing that was bound and disconnected: nothing reached the
\* driver and the identity is still there
C20_Witness ==
    /\ last.op = "pull"
    /\ bridge_instance = "none" /\ identityd = "thing-1"
    /\ pulled = {"d1"}
    /\ ovalue["on"] # Null
    /\ log = <<>>

(***************************************************************************)
(* C21: when the driver invokes the pulled callback with null or with no   *)
(* data, exactly the meta-changed notification fires: no input or output   *)
(* value changes, and no per-attribute callback, no 'state', 'istate' or   *)
(* 'ostate' event and no push occurs.                                      *)
(***************************************************************************)
C21_Step ==
    last'.op = "pulled_null" =>
        /\ ivalue' = ivalue /\ ovalue' = ovalue
        /\ ichanged' = ichanged /\ ochanged' = ochanged
        /\ log' = <<EvEmit("meta")>>

C21_OnlyMeta == [][C21_Step]_vars

(***************************************************************************)
(* C22: the values the driver delivers with pulled(dict) are written only  *)
(* to input values: no output value changes, no push call is made to the   *)
(* driver, and the listeners of an attribute are notified only if its      *)
(* input value changed (and then each of them once).                       *)
(***************************************************************************)
C22_Step ==
    last'.op = "pulled" =>
        /\ ovalue' = ovalue
        /\ PushPos(log') = {}
        /\ \A i \in 1..Len(last'.dict) :
              LET kv == last'.dict[i]
              IN  kv[1] \in Codes => ivalue'[kv[1]] = Coerced(kv[1], kv[2])
        /\ \A a \in Codes :
              Cardinality(CallbackAt(log', a)) =
                  IF ivalue'[a] # ivalue[a] THEN ListenersOf(a) ELSE 0

C22_PulledToInput == [][C22_Step]_vars

C22_Witness ==
    /\ last.op = "pulled"
    /\ last.depth > 0
    /\ bridge_instance # "none"
    /\ ovalue["on"] # Null
    /\ callbacksd["on"] > 0
    /\ CallbackAt(log, "on") = {}
    /\ CallbackAt(log, "intensity") # {}

(***************************************************************************)
(* C23: if the driver's pulled(dict) callback arrives while a user         *)
(* transaction is open on the Thing, the resulting changes are queued in   *)
(* that open transaction's pending maps and are notified only when that    *)
(* transaction ends.                                                       *)
(***************************************************************************)
C23_PulledInside == last'.op = "pulled" /\ last'.depth > 0

C23_ClaimedStep ==
    C23_PulledInside =>
        \A a \in Codes :
            ivalue'[a] # ivalue[a] =>
                /\ InSeq(transactions'[last'.depth]._notifyd, a)
                /\ CallbackAt(log', a) = {}

C23_Step ==
    C23_PulledInside =>
        /\ SubSeq(transactions', 1, last'.depth) = transactions
        /\ ThrowPos(log') = {} =>
              /\ transactions' = transactions
              /\ transaction' = transaction
              /\ \A a \in Codes :
                    ivalue'[a] # ivalue[a] =>
                        Cardinality(CallbackAt(log', a)) = ListenersOf(a)
              /\ (ivalue' # ivalue) => EmitAt(log', "state") # {}

C24_Default(name) == name \in {"validate", "push"}

\* the frame a nested start pushes
C24_StartStep ==
    (last'.op = "start" /\ last'.depth > 0) =>
        LET frame == transactions'[last'.depth + 1]
        IN  /\ Len(transactions') = last'.depth + 1
            /\ transaction' = last'.depth + 1
            /\ SubSeq(transactions', 1, last'.depth) = transactions
            /\ \A name \in {"notify", "validate", "push", "force"} :
                  frame[name] = IF name \in DOMAIN last'.paramd
                                THEN last'.paramd[name]
                                ELSE C24_Default(name)
            /\ frame._notifyd = <<>> /\ frame._pushd = <<>>

\* a set made in the nested frame goes by the flags of that frame alone
C24_SetStep ==
    (last'.op = "set" /\ last'.depth > 1 /\ last'.key \in Codes) =>
        LET k == last'.key
            top == transactions[last'.depth]
            after == transactions'[last'.depth]
            new == IF top.validate THEN Coerced(k, last'.val) ELSE last'.val
            old == IF top.push THEN ovalue[k] ELSE ivalue[k]
        IN  /\ SubSeq(transactions', 1, last'.depth - 1) =
                  SubSeq(transactions, 1, last'.depth - 1)
            /\ IF ~top.force /\ old = new
               THEN UNCHANGED <<ivalue, ovalue, transactions>>
               ELSE /\ InSeq(after._notifyd, k)
                    /\ top.push => /\ ovalue'[k] = new
                                   /\ ivalue' = ivalue
                                   /\ InSeq(after._pushd, k)
                    /\ ~top.push => /\ ivalue'[k] = new
                                    /\ ovalue' = ovalue
                                    /\ after._pushd = top._pushd

C25_Notified(l) == {l[i].a : i \in CallbackPos(l)}
C25_Pushed(l) ==
    UNION {{l[i].dict[j][1] : j \in 1..Len(l[i].dict)} : i \in PushPos(l)}

C25_EndStep ==
    (last'.op = "end" /\ last'.depth > 0) =>
        LET frame == transactions[last'.depth]
        IN  \* the frame on top is the one closed; those beneath are intact
            /\ transactions' = SubSeq(transactions, 1, last'.depth - 1)
            /\ transaction' = last'.depth - 1
            \* what is dispatched is what was pending in the closed frame
            /\ C25_Notified(log') \subseteq
                   {frame._notifyd[i] : i \in 1..Len(frame._notifyd)}
            /\ \A i \in 1..Len(frame._notifyd) :
                  Cardinality(CallbackAt(log', frame._notifyd[i])) =
                      IF frame.notify THEN ListenersOf(frame._notifyd[i]) ELSE 0
            /\ Cardinality(PushPos(log')) =
                   IF frame.push /\ bridge_instance # "none" THEN 1 ELSE 0
            /\ PushPos(log') # {} =>
                   C25_Pushed(log') = {frame._pushd[i] : i \in 1..Len(frame._pushd)}

\* a set, a start or a pulled made above a frame leaves that frame alone
C25_OtherStep ==
    (last'.op \in {"set", "start", "pulled"} /\ last'.depth > 0) =>
        /\ Len(transactions') >= last'.depth
        /\ SubSeq(transactions', 1, last'.depth - 1) =
               SubSeq(transactions, 1, last'.depth - 1)
        /\ last'.op # "set" => transactions'[last'.depth] = transactions[last'.depth]

C25_StrictNesting == [][C25_EndStep /\ C25_OtherStep]_vars

\* a nested frame was ended without a notification, and the enclosing frame
\* is current again with its pending entries
C25_Witness ==
    /\ last.op = "end"
    /\ last.depth = 2
    /\ ~last.paramd.notify
    /\ Len(transactions) = 1
    /\ transactions[1].notify
    /\ transactions[1]._notifyd = <<"intensity">>
    /\ transactions[1]._pushd = <<"intensity">>
    /\ callbacksd["null"] > 0
    /\ PushPos(log) # {}
    /\ CallbackPos(log) = {}

(***************************************************************************)
(* C26: end() called when no transaction is open is a no-op: it raises no  *)
(* error, changes no attribute value or flag, fires no callback or event,  *)
(* makes no push call, and leaves the transaction stack empty.             *)
(***************************************************************************)
C26_Step ==
    (last'.op = "end" /\ last'.depth = 0) =>
        /\ log' = <<>>
        /\ transactions' = <<>>
        /\ transaction' = 0
        /\ UNCHANGED <<ivalue, ovalue, ichanged, ochanged, callbacksd,
                       bridge_instance, attributes>>

C26_EndWithoutStart == [][C26_Step]_vars

C26_Witness ==
    /\ last.op = "end"
    /\ last.depth = 0
    /\ bridge_instance # "none"
    /\ callbacksd["on"] > 0
    /\ ovalue["on"] # Null
    /\ ivalue["intensity"] # Null

(***************************************************************************)
(* C27: at end(), an 'istate' (resp. 'ostate') event is emitted exactly    *)
(* when some attribute pending in the ended frame has its input-changed    *)
(* (resp. output-changed) flag set, independently of the frame's notify    *)
(* flag, and afterwards the changed flags of all pending attributes are    *)
(* false.                                                                  *)
(***************************************************************************)
C27_Step ==
    (last'.op = "end" /\ last'.depth > 0) =>
        LET frame == transactions[last'.depth]
            pending == {frame._notifyd[i] : i \in 1..Len(frame._notifyd)}
        IN  /\ Cardinality(EmitAt(log', "istate")) =
                   IF \E a \in pending : ichanged[a] THEN 1 ELSE 0
            /\ Cardinality(EmitAt(log', "ostate")) =
                   IF \E a \in pending : ochanged[a] THEN 1 ELSE 0
            /\ \A a \in pending : ~ichanged'[a] /\ ~ochanged'[a]
            /\ \A a \in Codes \ pending :
                  ichanged'[a] = ichanged[a] /\ ochanged'[a] = ochanged[a]

C27_CoarseEvents == [][C27_Step]_vars

\* a frame that does not notify was ended: 'ostate' was emitted for its
\* pending attribute, 'istate' was not
C27_Witness ==
    /\ last.op = "end"
    /\ last.depth > 0
    /\ ~last.paramd.notify
    /\ EmitAt(log, "ostate") # {}
    /\ EmitAt(log, "istate") = {}
    /\ EmitAt(log, "state") = {}
    /\ \E a \in Codes : ichanged[a]

(***************************************************************************)
(* C28: a callback registered with on(null, cb) is invoked for a notified  *)
(* change of any attribute, whether or not that attribute also has         *)
(* callbacks registered under its own code.                                *)
(***************************************************************************)
C28_Wildcard ==
    \A i \in CallbackPos(log) :
        callbacksd["null"] > 0 =>
            \E j \in CallbackAt(log, log[i].a) : log[j].k = "null"

(***************************************************************************)
(* C29: every per-attribute callback is invoked with (thing, attribute,    *)
(* new_value) where new_value is the value stored by the set being         *)
(* notified, in every state of the attribute's input and output slots: the *)
(* output value for a local set, the input value for a pulled one.         *)
(***************************************************************************)
C29_NewValue ==
    /\ (last.op = "set" /\ last.depth = 0 /\ last.key \in Codes) =>
          \A i \in CallbackAt(log, last.key) : log[i].v = ovalue[last.key]
    /\ last.op = "pulled" =>
          \A i \in CallbackPos(log) : log[i].v = ivalue[log[i].a]

(***************************************************************************)
(* C30: a string key containing '/' is split on '/', every segment but the *)
(* last is resolved by descending into the sub-entity with that code, and  *)
(* the last segment is looked up in the sub-entity reached; a segment that *)
(* matches no sub-entity yields not-found.  The Thing has no sub-entities, *)
(* so every key with a slash is to be not found: get returns undefined and *)
(* set writes and notifies nothing.                                        *)
(***************************************************************************)
C30_Descent ==
    SlashAt(last.key) # {} =>
        /\ last.op = "get" => ret = Undefined
        /\ last.op = "set" => log = <<>>

C31_Step ==
    (last'.op = "set" /\ last'.depth = 0) =>
        \A a \in Codes :
            Cardinality(CallbackAt(log', a)) =
                IF ovalue'[a] # ovalue[a] THEN ListenersOf(a) ELSE 0

C32_Step ==
    last'.op = "update" =>
        /\ Len(transactions') = Len(transactions)
        /\ transaction' = transaction

C32_Balanced == [][C32_Step]_vars

(***************************************************************************)
(* C33: once a driver has been replaced (bind_bridge with another driver)  *)
(* or disconnected, an invocation of the old driver's pulled callback      *)
(* changes no attribute value of the Thing and fires no listener: at any   *)
(* time at most one driver can deliver values to a Thing.                  *)
(***************************************************************************)
C33_Step ==
    (last'.op = "pulled" /\ last'.key # bridge_instance) =>
        /\ ivalue' = ivalue
        /\ ovalue' = ovalue
        /\ CallbackPos(log') = {}
        /\ EmitPos(log') = {}

C33_OneDriver == [][C33_Step]_vars

(***************************************************************************)
(* C34: a set issued from inside a listener callback while end() is        *)
(* dispatching the notifications of a frame is not lost: with notify       *)
(* enabled the attribute's callbacks are invoked for it, and with push     *)
(* enabled its value is pushed to the driver, before or when the           *)
(* transaction stack becomes empty.                                        *)
(***************************************************************************)
\* the positions of l at which a callback that sets was invoked
C34_SetterAt(l) == {i \in CallbackPos(l) : l[i].k = reaction.on}

C34_Step ==
    (/\ last'.op = "end" /\ last'.depth = 1
     /\ C34_SetterAt(log') # {}
     /\ ovalue'[reaction.key] # ovalue[reaction.key]) =>
        LET key == reaction.key
            frame == transactions[1]
        IN  /\ (frame.notify /\ ListenersOf(key) > 0) =>
                  \E i \in CallbackAt(log', key) : log'[i].v = ovalue'[key]
            /\ (frame.push /\ bridge_instance # "none") =>
                  \E i \in PushPos(log') : InSeq(log'[i].dict, <<key, ovalue'[key]>>)

C34_NotLost == [][C34_Step]_vars

(***************************************************************************)
(* C35: the driver's push is called only when at least one output value is *)
(* pending: an end() (or update) of a frame in which no set changed an     *)
(* output value makes no push call on the bound driver.                    *)
(***************************************************************************)
C35_NoEmptyPush ==
    (last.op \in {"end", "update"}) =>
        \A i \in PushPos(log) : log[i].dict # <<>>

(***************************************************************************)
(* C36: once the IOT instance has started shutting down (_exit_cleanup has *)
(* run), meta_changed() emits no 'meta' event; before shutdown, and when   *)
(* no IOT instance exists, meta_changed() emits the event without raising  *)
(* an error.  meta_changed() is what pulled() with no data runs, and what  *)
(* bind_bridge ends with.                                                  *)
(***************************************************************************)
C36_Step ==
    (last'.op \in {"pulled_null", "bind_bridge"}) =>
        IF instance = "down"
        THEN EmitAt(log', "meta") = {}
        ELSE ThrowPos(log') = {} /\ Cardinality(EmitAt(log', "meta")) = 1

C36_MetaChanged == [][C36_Step]_vars

(***************************************************************************)
(* C37: a callback passed to IOT.on_ready is invoked at most once, and     *)
(* only at a moment when every readiness counter is zero: immediately if   *)
(* the IOT is ready at registration, otherwise at the first later          *)
(* ready_delta that brings all counters to zero; the ready event is never  *)
(* emitted while any counter is positive.                                  *)
(***************************************************************************)
C37_AllZero(readyd) == \A key \in ReadyKeys : readyd[key] = 0
\* the positions of l at which the callback id of on_ready was invoked
C37_ReadyAt(l, id) == {i \in 1..Len(l) : l[i].t = "on_ready" /\ l[i].i = id}

C37_Step ==
    /\ \A id \in 1..Len(iot'.called) :
          /\ iot'.called[id] <= 1
          /\ id <= Len(iot.called) =>
                iot'.called[id] = iot.called[id] + Cardinality(C37_ReadyAt(log', id))
    /\ \A i \in 1..Len(log') :
          (log'[i].t = "on_ready" \/ (log'[i].t = "iot_emit" /\ log'[i].k = "iot_ready")) =>
              C37_AllZero(log'[i].snap[1])
    /\ last'.op = "on_ready" =>
          LET id == Len(iot'.called)
          IN  /\ id = Len(iot.called) + 1
              /\ iot'.called[id] = IF C37_AllZero(iot.readyd) THEN 1 ELSE 0
              /\ Cardinality(C37_ReadyAt(log', id)) = iot'.called[id]
    /\ last'.op = "ready_delta" =>
          \A id \in 1..Len(iot.called) :
              iot'.called[id] =
                  IF iot.called[id] = 0 /\ C37_AllZero(iot'.readyd) THEN 1
                  ELSE iot.called[id]

C37_OnReadyOnce == [][C37_Step]_vars

\* two callbacks were handed to on_ready while a counter was positive, and
\* the ready_delta that brought it back to zero called both
C37_Witness ==
    /\ last.op = "ready_delta"
    /\ Len(iot.called) = 2
    /\ Len(iot.doits) = 2
    /\ C37_ReadyAt(log, 1) # {} /\ C37_ReadyAt(log, 2) # {}
    /\ C37_AllZero(iot.readyd)

(***************************************************************************)
(* C38: IOT._add_thing keeps at most one Thing per thing_id: adding a      *)
(* Thing whose thing_id is already registered leaves the registered Thing  *)
(* in place and emits no new-thing event; if the registered Thing is       *)
(* unreachable it takes over the new Thing's driver and is reachable       *)
(* afterwards; a Thing without identity is never registered.               *)
(***************************************************************************)
C38_NewThingEvents(l) ==
    {i \in 1..Len(l) : l[i].t = "iot_emit" /\ l[i].k = "iot_new_thing"}

C38_Registry ==
    last'.op = "_add_thing" =>
        /\ \A id \in ThingIds :
              iot.thing_instanced[id] # "none" =>
                  iot'.thing_instanced[id] = iot.thing_instanced[id]
        /\ (last'.key = "none" \/ iot.thing_instanced[last'.key] # "none") =>
              /\ iot'.thing_instanced = iot.thing_instanced
              /\ C38_NewThingEvents(log') = {}

\* the Thing added is another object than the one registered
C38_Swapped ==
    /\ last'.op = "_add_thing"
    /\ last'.key # "none"
    /\ last'.dict[1][1] = "other"
    /\ iot.thing_instanced[last'.key] = "self"
    /\ ~reachable(Self, last'.val = Bool(TRUE))

C38_Step ==
    /\ C38_Registry
    /\ C38_Swapped =>
          /\ driver_instance' = last'.dict[1][2]
          /\ bridge_instance' # "none"

C38_OnePerId == [][C38_Step]_vars

(***************************************************************************)
(* C39: in every reachable state self._transaction is the top frame of     *)
(* self._transactions, and null exactly when the stack is empty, after any *)
(* sequence of start and end calls, more end calls than start calls        *)
(* included.                                                               *)
(***************************************************************************)
C39_PointerAtTop ==
    /\ transaction = Len(transactions)
    /\ transaction = 0 <=> transactions = <<>>

\* an end call that leaves an enclosing transaction open
C39_Witness ==
    /\ last.op = "end"
    /\ last.depth = 2
    /\ transaction = 1
    /\ Len(transactions) = 1

====
